---- MODULE Spec2Model ----
(***************************************************************************)
(* A model of the Writable stream of src/src/writable.js (Spec) and of the *)
(* WritableFileStream of src/src/fs-write-stream.js built on it (FileSpec). *)
(*                                                                         *)
(* The writableState object is the variable `state`.  The sink (_write,    *)
(* _writev) and the finalize operation (_final) report back through a      *)
(* callback some time after they were invoked: the operations invoked and  *)
(* not yet reported are `inflight` and `finalPending`.  The teardown is    *)
(* the default _destroy, which reports back at once.  The other variables  *)
(* record what has happened so far: the chunks accepted, the chunks handed *)
(* to the sink and completed by it, the calls of _final and _destroy.      *)
(*                                                                         *)
(* Every method is an operator from the machine before the call to the     *)
(* machine after it, so that a method calling another is a composition;    *)
(* the field `did` of the result lists the calls and signals of this one   *)
(* operation, `thrown` whether it left by an exception and `ret` the value *)
(* it returned.                                                            *)
(*                                                                         *)
(* A chunk is named by its position in `accepted`; accepted[i] is its      *)
(* length in bytes.  An 'error' listener is taken to be attached, so that  *)
(* emit('error') does not throw, and listeners and write callbacks do not  *)
(* call back into the stream.                                              *)
(*                                                                         *)
(* The file stream runs the same methods with its own _write, _writev,     *)
(* _final and _destroy; the variable `file` holds its fields, the fs.open, *)
(* fs.write and fs.close calls awaiting their callbacks and the calls      *)
(* deferred with process.nextTick.  For a plain Writable `file` is NoFile. *)
(***************************************************************************)
EXTENDS Integers, Sequences, FiniteSets, TLC

\* Bounds of the model: chunks accepted, cork depth, _final calls awaiting
\* their callback.
MaxWrites == 2
MaxCorks == 2
MaxFinalPending == 1
\* The totals count 0, 1, ... and stop at Many, which stands for Many or more.
Many == 2
\* fs.close calls awaiting their callback.
MaxCloses == 2

\* The inputs: chunk lengths in bytes and the configured highWaterMark.
ChunkLens == {0, 6, 10}
HighWaterMarks == {10}

\* The highWaterMark of a stream constructed without one.
DEFAULT_BUFFER_SIZE == 16384

\* The inputs of the file stream: the start option, the lengths of its chunks.
Starts == {3}
FileChunkLens == {6}

VARIABLES
    state,          \* this[writableState]                     (writable.js 38-55)
    inflight,       \* sink operations awaiting their completion callback
    finalPending,   \* _final calls awaiting their callback
    accepted,       \* lengths of the chunks write has accepted, in order
    handed,         \* chunks handed to the sink, in order
    completed,      \* chunks whose sink operation has reported completion
    totals,         \* _final calls, finish signals and _destroy calls so far
    paused,         \* a write returned false for backpressure, no drain since
    corkRun,        \* a cork() made with nothing in flight and what followed
    file            \* the fields a WritableFileStream adds  (fs-write-stream.js)

vars == <<state, inflight, finalPending, accepted,
          handed, completed, totals, paused, corkRun, file>>

\* What one operation does besides changing the state: the sink, _final and
\* _destroy calls it makes, the signals it emits and the write callbacks it
\* invokes (named by their chunks).
Nothing == [sink |-> 0, final |-> 0, finish |-> 0, drain |-> 0, teardown |-> 0,
            error |-> 0, close |-> 0, callbacks |-> <<>>]

\* The whole machine as one record, so that the methods compose as functions.
Machine ==
    [state |-> state, inflight |-> inflight,
     finalPending |-> finalPending,
     accepted |-> accepted, handed |-> handed, completed |-> completed,
     paused |-> paused, file |-> file,
     did |-> Nothing, thrown |-> FALSE, ret |-> "none"]

Range(s) == {s[i] : i \in 1..Len(s)}

RECURSIVE SumLen(_, _)
SumLen(acc, ids) ==
    IF ids = {} THEN 0
    ELSE LET i == CHOOSE x \in ids : TRUE IN acc[i] + SumLen(acc, ids \ {i})

\* get writableLength()
writableLength(st) == st.bytesInQueue + st.bytesCorked

\* An exception leaves the method: the statements after it do not run.
Throw(m) == [m EXCEPT !.thrown = TRUE]

Bump(m, what) == [m EXCEPT !.did[what] = @ + 1]

\* [getBuffers](): the state after the call; the value returned is the
\* state.buffers of before.
getBuffers(m) == [m EXCEPT !.state.buffers = <<>>, !.state.bytesInQueue = 0]

\* A position that leaves out the bytes written so far.
FilePositionAtStart(f) == f.start

\* this.start + this.bytesWritten, as handed to fs.write and fs.writev
\* (fs-write-stream.js 101, 122).
FilePosition(f) == f.start + f.bytesWritten

\* WritableFileStream._write(data, callback) for the operation callWrite has
\* just put last in inflight: held for 'open' while fd is null, otherwise
\* handed to fs.write at the current position.
fileWrite(m) ==
    LET f == m.file
    IN  IF f.fd = "null"
        THEN [m EXCEPT !.file.ops = Append(@, [where |-> "held", position |-> 0])]
        ELSE [m EXCEPT !.file.ops = Append(@, [where |-> "issued",
                                               position |-> FilePosition(f)])]

\* WritableFileStream._writev(data, callback): as _write, with fs.writev.
fileWritev(m) == fileWrite(m)

\* this._write / this._writev as [callWrite] finds them: those of the
\* WritableFileStream, or the functions given to the Writable constructor,
\* which report back when the model lets them.
sinkWrite(m, isArray) ==
    IF m.file.isFile
    THEN IF isArray THEN fileWritev(m) ELSE fileWrite(m)
    ELSE m

\* [callWrite](data).  A list goes to _writev, or concatenated to _write when
\* no _writev was supplied: one sink operation in both cases.
callWrite(m, data, isArray) ==
    sinkWrite([m EXCEPT !.state.writing = TRUE,
                        !.state.callbacks = <<>>,
                        !.inflight = Append(@, [isArray |-> isArray,
                                                chunks |-> data,
                                                callbacks |-> m.state.callbacks]),
                        !.handed = @ \o data,
                        !.did.sink = @ + 1],
              isArray)

\* [closeFile](err, callback).  `cb` names the callback: "destroy" for the one
\* destroy() makes, "final" for the one of [callFinish], "none" for none.
closeFile(m, err, cb, hasCallback) ==
    LET c == [cb |-> cb, err |-> err, hasCallback |-> hasCallback]
    IN  IF m.file.fd = "null"
        THEN IF cb # "none" THEN [m EXCEPT !.file.ticks = Append(@, c)] ELSE m
        ELSE [m EXCEPT !.file.closes = Append(@, c)]

\* emit('error', err): the listener the constructor adds under autoClose
\* (fs-write-stream.js 56-58) runs inside the emit.
emitError(m) ==
    LET m1 == Bump(m, "error")
    IN  IF m.file.isFile /\ m.file.autoClose
        THEN closeFile(m1, TRUE, "none", FALSE)
        ELSE m1

\* A destroy() without the check of line 87.
DestroyNeverRefused(st) == FALSE

\* destroy() refuses an instance that is already destroyed.
DestroyRefused(st) == st.destroyed

\* The callback destroy() hands to _destroy, called with `err`.
destroyCallback(m, err, hasCallback) ==
    LET m1 == IF ~hasCallback /\ err THEN emitError(m) ELSE m
    IN  IF m1.state.emitClose THEN Bump(m1, "close") ELSE m1

\* _destroy(err, callback): the default, which reports back at once.
defaultDestroy(m, err, hasCallback) ==
    destroyCallback(Bump(m, "teardown"), err, hasCallback)

\* WritableFileStream._destroy(err, callback)
fileDestroy(m, err, hasCallback) ==
    closeFile(Bump(m, "teardown"), err, "destroy", hasCallback)

\* destroy(error, callback)
destroy(m, error, hasCallback) ==
    IF DestroyRefused(m.state) THEN Throw(m)
    ELSE LET m1 == [m EXCEPT !.state.destroyed = TRUE]
         IN  IF m.file.isFile THEN fileDestroy(m1, error, hasCallback)
             ELSE defaultDestroy(m1, error, hasCallback)

\* [errorOrDestroy](error)
errorOrDestroy(m, error) ==
    IF m.state.autoDestroy THEN destroy(m, error, FALSE)
    ELSE IF error THEN emitError(m)
    ELSE m

\* WritableFileStream._final(callback): without autoClose the callback is
\* neither called nor kept.
fileFinal(m) ==
    IF m.file.autoClose THEN closeFile(m, FALSE, "final", FALSE) ELSE m

\* [callFinish]().  finalPending counts the callbacks handed to _final and
\* not called yet; a _final given to the Writable constructor reports back
\* when the model lets it.
callFinish(m) ==
    LET m1 == [m EXCEPT !.state.finished = TRUE,
                        !.finalPending = @ + 1,
                        !.did.final = @ + 1]
    IN  IF m.file.isFile THEN fileFinal(m1) ELSE m1

\* A write() without the corked branch of line 194.
WriteRouteIgnoringCork(st) == IF st.writing THEN "queued" ELSE "sink"

\* write(): where an accepted chunk goes (lines 194-202).
WriteRoute(st) ==
    IF st.corked > 0 THEN "corked"
    ELSE IF st.writing THEN "queued"
    ELSE "sink"

\* write(): the backpressure flag after the chunk was placed (line 204).
NeedDrain(st) == writableLength(st) >= st.highWaterMark

\* write(chunk, encoding, callback) for a valid chunk of `len` bytes.
\* process.nextTick(callback, err) throws a TypeError when no callback was
\* given, before anything else is done for the failed write; with a callback
\* it schedules the call for a later tick.
write(m, len, hasCallback) ==
    LET st == m.state
        id == Len(m.accepted) + 1
    IN  IF st.ended \/ st.destroyed
        THEN IF ~hasCallback THEN Throw(m)
             ELSE [errorOrDestroy(m, TRUE) EXCEPT !.ret = "false"]
        ELSE
        LET m1 == [m EXCEPT !.accepted = Append(@, len)]
            m2 == IF ~hasCallback THEN m1
                  ELSE IF st.corked > 0
                       THEN [m1 EXCEPT !.state.corkedCallbacks = Append(@, id)]
                       ELSE [m1 EXCEPT !.state.callbacks = Append(@, id)]
            route == WriteRoute(st)
            m3 == IF route = "corked"
                  THEN [m2 EXCEPT !.state.corkedBuffers = Append(@, id),
                                  !.state.bytesCorked = @ + len]
                  ELSE IF route = "queued"
                  THEN [m2 EXCEPT !.state.buffers = Append(@, id),
                                  !.state.bytesInQueue = @ + len]
                  ELSE callWrite(m2, <<id>>, FALSE)
            nd == NeedDrain(m3.state)
        IN  [m3 EXCEPT !.state.needDrain = nd,
                       !.paused = @ \/ nd,
                       !.ret = IF nd THEN "false" ELSE "true"]

\* cork()
cork(m) == [m EXCEPT !.state.corked = @ + 1]

\* An uncork() without the check of line 79.
UncorkDispatchesAlways(st) == TRUE

\* uncork(): whether the merged queue is dispatched (line 79).
UncorkDispatches(st) == ~st.writing

\* uncork()
uncork(m) ==
    LET m1 == IF m.state.corked > 0 THEN [m EXCEPT !.state.corked = @ - 1] ELSE m
        s1 == m1.state
        m2 == [m1 EXCEPT !.state.buffers = @ \o s1.corkedBuffers,
                         !.state.callbacks = @ \o s1.corkedCallbacks,
                         !.state.bytesInQueue = @ + s1.bytesCorked,
                         !.state.bytesCorked = 0,
                         !.state.corkedBuffers = <<>>,
                         !.state.corkedCallbacks = <<>>]
    IN  IF s1.corked # 0 THEN m1
        ELSE IF UncorkDispatches(m2.state)
             THEN callWrite(getBuffers(m2), m2.state.buffers, TRUE)
             ELSE m2

\* end(chunk, encoding, callback): the implicit write passes no callback.
end(m, withChunk, len) ==
    LET m1 == IF withChunk THEN write(m, len, FALSE) ELSE m
    IN  IF m1.thrown THEN m1
        ELSE [m1 EXCEPT !.state.ended = TRUE, !.ret = "none"]

\* The completion callback of [callWrite]: whether the cycle stops (line 224).
QueueDrained(st) == st.bytesInQueue = 0

RemoveAt(s, i) == SubSeq(s, 1, i - 1) \o SubSeq(s, i + 1, Len(s))

\* The completion callback [callWrite] hands to the sink, called with `error`
\* for the operation inflight[i].
writeCallback(m, i, error) ==
    LET op == m.inflight[i]
        m1 == [m EXCEPT !.inflight = RemoveAt(@, i),
                        !.did.callbacks = @ \o op.callbacks,
                        !.completed = @ \cup Range(op.chunks)]
        m2 == IF error THEN errorOrDestroy(m1, TRUE) ELSE m1
    IN  IF m2.thrown THEN m2
        ELSE IF QueueDrained(m2.state)
        THEN LET m3 == [m2 EXCEPT !.state.writing = FALSE]
                 m4 == IF m3.state.needDrain
                       THEN [m3 EXCEPT !.state.needDrain = FALSE,
                                       !.paused = FALSE,
                                       !.did.drain = @ + 1]
                       ELSE m3
             IN  IF m4.state.ended THEN callFinish(m4) ELSE m4
        ELSE callWrite(getBuffers(m2), m2.state.buffers, TRUE)

\* The callback [callFinish] hands to _final, called with `error`.
finalCallback(m, error) ==
    errorOrDestroy([m EXCEPT !.finalPending = @ - 1, !.did.finish = @ + 1],
                   error)

\* Whatever callback [closeFile] was given, called with `err`.
runCallback(m, cb, err, hasCallback) ==
    IF cb = "destroy" THEN destroyCallback(m, err, hasCallback)
    ELSE IF cb = "final" THEN finalCallback(m, err)
    ELSE m

\* The callback [openFile] hands to fs.open.  emit('open') runs the retries
\* that _write and _writev registered while fd was null, in order.  Both
\* retry with this._write(data, callback): for the list of a _writev this is
\* fs.write(fd, list, 0, n, position, cb), which throws a TypeError in every
\* Node.js that has fs.writev; the exception leaves the emit, the operation is
\* never applied and its callback never called.
openCallback(m, error) ==
    LET m1 == [m EXCEPT !.file.opening = FALSE]
        m2 == [m1 EXCEPT !.file.fd = "open", !.file.pending = FALSE]
        ops == m.file.ops
        Held(k) == ops[k].where = "held"
        bad == {k \in 1..Len(ops) : Held(k) /\ m.inflight[k].isArray}
        stop == IF bad = {} THEN Len(ops) + 1
                ELSE CHOOSE k \in bad : \A j \in bad : k <= j
        retried == [k \in 1..Len(ops) |->
                      IF Held(k) /\ k < stop
                      THEN [where |-> "issued", position |-> FilePosition(m2.file)]
                      ELSE IF k = stop THEN [where |-> "lost", position |-> 0]
                      ELSE ops[k]]
    IN  IF error THEN emitError(m1)
        ELSE [m2 EXCEPT !.file.ops = retried, !.thrown = bad # {}]

\* The callback _write and _writev hand to fs.write and fs.writev, for the
\* operation inflight[i]; `bytes` is the count the file system reports.
fsWriteCallback(m, i, error, bytes) ==
    LET m1 == [m EXCEPT !.file.ops = RemoveAt(@, i)]
    IN  IF error THEN writeCallback(m1, i, TRUE)
        ELSE writeCallback([m1 EXCEPT !.file.bytesWritten = @ + bytes], i, FALSE)

\* The callback [closeFile] hands to fs.close, for the call closes[j].
closeCallback(m, j, error) ==
    LET c == m.file.closes[j]
        m1 == [m EXCEPT !.file.closes = RemoveAt(@, j),
                        !.file.fd = "null",
                        !.file.closed = TRUE]
        m2 == runCallback(m1, c.cb, error \/ c.err, c.hasCallback)
    IN  Bump(m2, "close")

\* The callback [closeFile] gave to process.nextTick runs.
tick(m) ==
    LET c == Head(m.file.ticks)
    IN  runCallback([m EXCEPT !.file.ticks = Tail(@)], c.cb, c.err, c.hasCallback)

----------------------------------------------------------------------------

\* A plain Writable has none of the file stream's fields.
NoFile == [isFile |-> FALSE, fd |-> "null", opening |-> FALSE, pending |-> FALSE,
           closed |-> FALSE, start |-> 0, bytesWritten |-> 0,
           autoClose |-> FALSE, ops |-> <<>>, closes |-> <<>>, ticks |-> <<>>,
           reported |-> 0]

NoRun == [phase |-> "none", first |-> 0, calls |-> 0]

AtMost(n) == IF n > Many THEN Many ELSE n

Install(m, run) ==
    /\ Len(m.file.closes) <= MaxCloses
    /\ state' = m.state
    /\ inflight' = m.inflight
    /\ finalPending' = m.finalPending
    /\ accepted' = m.accepted
    /\ handed' = m.handed
    /\ completed' = m.completed
    /\ totals' = [final |-> AtMost(totals.final + m.did.final),
                  finish |-> AtMost(totals.finish + m.did.finish),
                  teardown |-> AtMost(totals.teardown + m.did.teardown)]
    /\ paused' = m.paused
    /\ corkRun' = IF m.file.isFile THEN NoRun ELSE run
    /\ file' = m.file

\* new Writable({ write, writev, highWaterMark, autoDestroy })
Init ==
    /\ \E hwm \in HighWaterMarks, ad \in BOOLEAN :
         state = [emitClose |-> TRUE, autoDestroy |-> ad, highWaterMark |-> hwm,
                  destroyed |-> FALSE, ended |-> FALSE, finished |-> FALSE,
                  corked |-> 0, writing |-> FALSE, needDrain |-> FALSE,
                  bytesInQueue |-> 0, buffers |-> <<>>, callbacks |-> <<>>,
                  bytesCorked |-> 0, corkedBuffers |-> <<>>,
                  corkedCallbacks |-> <<>>]
    /\ inflight = <<>>
    /\ finalPending = 0
    /\ accepted = <<>>
    /\ handed = <<>>
    /\ completed = {}
    /\ totals = [final |-> 0, finish |-> 0, teardown |-> 0]
    /\ paused = FALSE
    /\ corkRun = NoRun
    /\ file = NoFile

\* A write is refused without a look at the chunk once the stream has ended
\* or is destroyed; the model accepts MaxWrites chunks.
CanWrite == state.ended \/ state.destroyed \/ Len(accepted) < MaxWrites

Write(len, hasCallback) ==
    /\ CanWrite
    /\ LET m == write(Machine, len, hasCallback)
       IN  Install(m, IF Len(m.accepted) > Len(accepted) /\ corkRun.phase = "open"
                   THEN [corkRun EXCEPT !.calls = @ + m.did.sink]
                   ELSE NoRun)

Cork ==
    /\ state.corked < MaxCorks
    /\ Install(cork(Machine), IF ~state.writing /\ state.corked = 0 /\ inflight = <<>>
               THEN [phase |-> "open", first |-> Len(accepted), calls |-> 0]
               ELSE NoRun)

Uncork ==
    /\ finalPending < MaxFinalPending
    /\ LET m == uncork(Machine)
       IN  Install(m, IF corkRun.phase = "open"
                   THEN [corkRun EXCEPT !.phase = "closed",
                                        !.calls = @ + m.did.sink]
                   ELSE NoRun)

End(withChunk, len) ==
    /\ withChunk => CanWrite
    /\ Install(end(Machine, withChunk, len), NoRun)

Destroy(error, hasCallback) ==
    /\ error \in BOOLEAN
    /\ Install(destroy(Machine, error, hasCallback), NoRun)

\* The sink reports the completion of an operation, with or without an error.
SinkComplete(i, error) ==
    /\ i \in 1..Len(inflight)
    /\ Install(writeCallback(Machine, i, error), NoRun)

\* _final reports back.
FinalComplete(error) ==
    /\ finalPending > 0
    /\ Install(finalCallback(Machine, error), NoRun)

Next ==
    \/ \E len \in ChunkLens, cb \in BOOLEAN : Write(len, cb)
    \/ Cork
    \/ Uncork
    \/ \E len \in ChunkLens : End(TRUE, len)
    \/ End(FALSE, 0)
    \/ \E e \in BOOLEAN, cb \in BOOLEAN : Destroy(e, cb)
    \/ \E i \in 1..Len(inflight), e \in BOOLEAN : SinkComplete(i, e)
    \/ \E e \in BOOLEAN : FinalComplete(e)

Spec == Init /\ [][Next]_vars

----------------------------------------------------------------------------
(* The WritableFileStream: the same methods over the sink of                *)
(* fs-write-stream.js, with the file system reporting back.                 *)

\* new WritableFileStream(path, { start, autoClose }): super() is given
\* emitClose and defaultEncoding only, so autoDestroy is false and
\* highWaterMark the default; with no fd given the constructor starts fs.open.
FileInit ==
    /\ state = [emitClose |-> FALSE, autoDestroy |-> FALSE,
                highWaterMark |-> DEFAULT_BUFFER_SIZE,
                destroyed |-> FALSE, ended |-> FALSE, finished |-> FALSE,
                corked |-> 0, writing |-> FALSE, needDrain |-> FALSE,
                bytesInQueue |-> 0, buffers |-> <<>>, callbacks |-> <<>>,
                bytesCorked |-> 0, corkedBuffers |-> <<>>,
                corkedCallbacks |-> <<>>]
    /\ inflight = <<>>
    /\ finalPending = 0
    /\ accepted = <<>>
    /\ handed = <<>>
    /\ completed = {}
    /\ totals = [final |-> 0, finish |-> 0, teardown |-> 0]
    /\ paused = FALSE
    /\ corkRun = NoRun
    /\ \E start \in Starts, autoClose \in BOOLEAN :
         file = [isFile |-> TRUE, fd |-> "null", opening |-> TRUE,
                 pending |-> TRUE, closed |-> FALSE,
                 start |-> start, bytesWritten |-> 0, autoClose |-> autoClose,
                 ops |-> <<>>, closes |-> <<>>, ticks |-> <<>>, reported |-> 0]

\* fs.open reports back.
OpenDone(error) ==
    /\ file.opening
    /\ Install(openCallback(Machine, error), NoRun)

\* The byte counts fs.write may report for `len` bytes: all, or a short write.
Reports(len) == {len, len \div 2}

OpBytes(i) == SumLen(accepted, Range(inflight[i].chunks))

\* fs.write or fs.writev reports back for the operation inflight[i].
FsWriteDone(i, error, bytes) ==
    /\ i \in 1..Len(inflight)
    /\ file.ops[i].where = "issued"
    /\ LET m == fsWriteCallback(Machine, i, error, bytes)
       IN  Install([m EXCEPT !.file.reported = IF error THEN @ ELSE @ + bytes],
                   NoRun)

\* fs.close reports back for the call closes[j].
FsCloseDone(j, error) ==
    /\ j \in 1..Len(file.closes)
    /\ Install(closeCallback(Machine, j, error), NoRun)

\* The next tick runs the callback [closeFile] deferred.
Tick ==
    /\ file.ticks # <<>>
    /\ Install(tick(Machine), NoRun)

FileNext ==
    \/ \E len \in FileChunkLens : Write(len, TRUE)
    \/ Cork
    \/ Uncork
    \/ \E len \in FileChunkLens : End(TRUE, len)
    \/ End(FALSE, 0)
    \/ \E e \in BOOLEAN, cb \in BOOLEAN : Destroy(e, cb)
    \/ \E e \in BOOLEAN : OpenDone(e)
    \/ \E i \in 1..Len(inflight), e \in BOOLEAN :
          \E b \in Reports(OpBytes(i)) : FsWriteDone(i, e, b)
    \/ \E j \in 1..Len(file.closes), e \in BOOLEAN : FsCloseDone(j, e)
    \/ Tick

FileSpec == FileInit /\ [][FileNext]_vars

----------------------------------------------------------------------------
(* The claims. *)

Chunks == 1..Len(accepted)

\* The chunks write has accepted whose sink operation has not reported back.
Outstanding == Chunks \ completed

OutstandingBytes == SumLen(accepted, Outstanding)

Refusing == state.ended \/ state.destroyed

IsSuffix(s, t) ==
    /\ Len(s) <= Len(t)
    /\ SubSeq(t, Len(t) - Len(s) + 1, Len(t)) = s

\* C1: at most one sink operation (_write or _writev) awaits its completion
\* callback in any reachable state.
C1_OneSinkOperation == Len(inflight) <= 1

\* A sink operation is outstanding after an earlier one completed, and a
\* chunk written meanwhile waits in the pending queue for it.
C1_Witness ==
    /\ Len(inflight) = 1
    /\ completed # {}
    /\ state.buffers # <<>>

\* C2: the chunks handed to the sink are a prefix of the chunks accepted, in
\* acceptance order; and with nothing in flight, cork depth zero and no
\* completion pending, every accepted chunk has been handed over, so the
\* bytes handed over equal the bytes accepted.
C2_HandedIsPrefixOfAccepted ==
    /\ handed = [i \in 1..Len(handed) |-> i]
    /\ Len(handed) <= Len(accepted)
    /\ (inflight = <<>> /\ state.corked = 0 /\ finalPending = 0)
         => /\ Len(handed) = Len(accepted)
            /\ SumLen(accepted, Range(handed)) = SumLen(accepted, Chunks)

\* C3: in a state where the stream has ended or is destroyed, a write
\* (with or without a callback) returns false, leaves both queues and their
\* byte totals as they are and invokes no sink operation.
C3_RefusedWriteReturnsFalse ==
    Refusing =>
        \A len \in ChunkLens, cb \in BOOLEAN :
            LET m == write(Machine, len, cb)
            IN  /\ ~m.thrown
                /\ m.ret = "false"
                /\ m.did.sink = 0
                /\ m.inflight = inflight
                /\ m.state.buffers = state.buffers
                /\ m.state.corkedBuffers = state.corkedBuffers
                /\ m.state.bytesInQueue = state.bytesInQueue
                /\ m.state.bytesCorked = state.bytesCorked

\* C4: cork() with nothing in flight and cork depth zero, then N accepted
\* writes, then one uncork(): at most one sink operation was invoked, and it
\* was handed the N chunks in the order they were written.
C4_CorkedWritesGoOutAsOneBatch ==
    corkRun.phase = "closed" =>
        LET n == Len(accepted) - corkRun.first
            written == [i \in 1..n |-> corkRun.first + i]
        IN  /\ corkRun.calls <= 1
            /\ n > 0 => /\ corkRun.calls = 1
                        /\ inflight # <<>>
                        /\ IsSuffix(written, inflight[Len(inflight)].chunks)

\* Two chunks were written under the cork and the uncork has handed them over.
C4_Witness ==
    /\ corkRun.phase = "closed"
    /\ Len(accepted) - corkRun.first = 2
    /\ corkRun.calls = 1
    /\ Len(inflight) = 1

\* C5: an accepted write returns false whenever the bytes accepted and not
\* yet completed by the sink, those of the operation in flight included, are
\* at or above highWaterMark after it.
C5_WriteReturnsFalseAtHighWaterMark ==
    [][\A len \in ChunkLens, cb \in BOOLEAN :
         (~Refusing /\ Write(len, cb)
            /\ OutstandingBytes' >= state.highWaterMark)
         => write(Machine, len, cb).ret = "false"]_vars

\* C6: a producer that was told to pause (write returned false) has received
\* its drain by the time every chunk it wrote has been completed by the sink
\* and the stream is no longer writing.
C6_DrainFollowsPause ==
    ~(paused /\ Outstanding = {} /\ inflight = <<>> /\ ~state.writing)

\* C7: _final is called at most once and finish is emitted at most once.
C7_FinalizeAndFinishOnce == totals.final <= 1 /\ totals.finish <= 1

\* C8: after end() on a stream that is not destroyed, with every sink
\* operation and every _final reported back and cork depth zero, finish has
\* fired; nothing is pending in such a state that could still fire it.
C8_FinishFollowsEnd ==
    (/\ state.ended
     /\ ~state.destroyed
     /\ inflight = <<>>
     /\ finalPending = 0
     /\ state.corked = 0) => totals.finish >= 1

\* C9: destroy() on a destroyed instance throws, calls no _destroy and
\* changes nothing; and _destroy is called at most once in all.
C9_TeardownAtMostOnce ==
    /\ totals.teardown <= 1
    /\ state.destroyed =>
         \A e \in BOOLEAN, cb \in BOOLEAN :
            LET m == destroy(Machine, e, cb)
            IN  /\ m.thrown
                /\ m.did.teardown = 0
                /\ m.state = state

\* With autoDestroy, a sink failure reported to a stream that was destroyed
\* before: the destroy() inside the completion callback was refused, which
\* left `writing` set with nothing in flight; _destroy ran once.
C9_Witness ==
    /\ state.autoDestroy
    /\ state.destroyed
    /\ totals.teardown = 1
    /\ state.writing
    /\ inflight = <<>>

\* C10: writableLength is the sum of the lengths of the chunks accepted whose
\* sink operation has not completed.
C10_WritableLengthIsOutstandingBytes ==
    writableLength(state) = OutstandingBytes

Queued == Range(state.buffers) \cup Range(state.corkedBuffers)

Increasing(s) == \A j, k \in 1..Len(s) : j < k => s[j] < s[k]

\* C11: the write callbacks a completion invokes are invoked in the order
\* their chunks were accepted, each for a chunk whose sink operation has
\* reported completion, none for a chunk that waits in the pending or the
\* corked queue.
C11_CallbacksFollowCompletion ==
    [][\A i \in 1..Len(inflight), e \in BOOLEAN :
         SinkComplete(i, e) =>
            LET invoked == writeCallback(Machine, i, e).did.callbacks
            IN  /\ Increasing(invoked)
                /\ \A k \in 1..Len(invoked) :
                      /\ invoked[k] \in completed'
                      /\ invoked[k] \notin Queued]_vars

C13_SinkFailureIsEscalated ==
    [][\A i \in 1..Len(inflight) :
         SinkComplete(i, TRUE) =>
            LET m == writeCallback(Machine, i, TRUE)
            IN  /\ ~m.thrown
                /\ IF state.autoDestroy
                   THEN m.did.teardown = 1 /\ state'.destroyed
                   ELSE /\ m.did.error = 1
                        /\ m.did.teardown = 0
                        /\ state'.destroyed = state.destroyed]_vars

\* C17: where writing is false, the pending queue and its callbacks are empty.
C17_IdleMeansEmptyQueue ==
    ~state.writing => state.buffers = <<>> /\ state.callbacks = <<>>

\* C18: when a completion emits drain, writableLength is below highWaterMark.
C18_DrainBelowHighWaterMark ==
    [][\A i \in 1..Len(inflight), e \in BOOLEAN :
         (SinkComplete(i, e) /\ writeCallback(Machine, i, e).did.drain > 0)
         => writableLength(state') < state'.highWaterMark]_vars

\* C19: no sink operation is invoked with an empty batch.
C19_NoEmptyBatch == \A i \in 1..Len(inflight) : inflight[i].chunks # <<>>

----------------------------------------------------------------------------
(* The claims about the WritableFileStream, under FileSpec. *)

Issued == {k \in 1..Len(file.ops) : file.ops[k].where = "issued"}

\* C14: once open has fired (fd is set), every sink write handed over, the
\* ones held before open among them, single block or batch, has been passed
\* to the file system, and the first of them at the start offset.
C14_HeldWritesAppliedOnOpen ==
    file.fd = "open" =>
        \A k \in 1..Len(file.ops) :
            inflight[k].chunks # <<>> =>
                /\ file.ops[k].where = "issued"
                /\ file.reported = 0 => file.ops[k].position = file.start

\* C15: fs.close is called at most once for the descriptor: there is never a
\* second call while the first has not reported back (and none after it has,
\* since fd is null from then on).
C15_CloseIssuedOnce == Len(file.closes) <= 1

\* C16: every write passed to the file system and not yet reported is at
\* offset start plus the byte counts reported by the writes completed so far,
\* and it is the only one, so that successive writes are contiguous and do not
\* overlap.
C16_WritesLandContiguously ==
    /\ Cardinality(Issued) <= 1
    /\ \A k \in Issued : file.ops[k].position = file.start + file.reported

\* A batch went to fs.writev after an earlier write had reported its bytes.
C16_Witness ==
    \E k \in Issued :
        /\ inflight[k].isArray
        /\ file.reported > 0
        /\ file.ops[k].position = file.start + file.reported

\* C20: the callback [callFinish] hands to _final is called or is on its way:
\* while one is outstanding, a close or a deferred call holds it.
C20_FinalizeReports ==
    finalPending > 0 =>
        \/ \E j \in 1..Len(file.closes) : file.closes[j].cb = "final"
        \/ \E j \in 1..Len(file.ticks) : file.ticks[j].cb = "final"

====
